---------------------------- MODULE Spec2Model ----------------------------
(***************************************************************************)
(* Model of src/app.py: the upload handler of the knowledge-base server    *)
(* and the conversion pipeline it drives (MIME splitting, transfer         *)
(* decoding, image extraction, asset rewriting, sanitising, navigation     *)
(* extraction, filename derivation, metadata store).                       *)
(*                                                                         *)
(* Text is a sequence of symbols.  A symbol is a string: either a single   *)
(* character (letters, digits, "+", "/", "=", space, newline, ...) or a    *)
(* multi-character lexeme the regular expressions of the source treat as   *)
(* a unit ("<p>", "Navigation:", "Page Owner", "--X", a MIME header).      *)
(* Every symbol is one code point for the byte codecs: a single character  *)
(* has its ASCII code, the lexemes have the code points from U+0080 on.    *)
(* Spelling gives a lexeme's characters where the source looks inside it   *)
(* (the base64 decoder, which discards the characters outside its          *)
(* alphabet).  Bytes are numbers 0..255.                                   *)
(***************************************************************************)
EXTENDS Integers, Sequences, FiniteSets, TLC

MultiSymbols ==
  << "<html>", "</html>", "<p>", "<p class=x>",
     "</p>", "<div>", "</div>", "<img ",
     "src=\"", "Navigation:", "&gt;", "Page Owner",
     "PAGE OWNER", "Page contact", "APE", "Billing",
     "Invoices", "hi", "foo.fld", "image001.png",
     "images", "ABCDEF12", ".png", ".jpg",
     ".gif", ".html", "boundary=\"X\"", "--X",
     "------=_Part_1", "Content-Type: text/html", "Content-Type: image/png", "Content-Transfer-Encoding: base64",
     "Content-Transfer-Encoding: quoted-printable", "Content-Location: file:///C:/", "MIME-Version: 1.0", "--",
     "<body>", "</body>" >>

Spelling(sym) ==
  CASE sym = "<html>" -> << "<", "h", "t", "m", "l", ">" >>
    [] sym = "</html>" -> << "<", "/", "h", "t", "m", "l", ">" >>
    [] sym = "<p>" -> << "<", "p", ">" >>
    [] sym = "<p class=x>" -> << "<", "p", " ", "c", "l", "a", "s", "s", "=", "x", ">" >>
    [] sym = "</p>" -> << "<", "/", "p", ">" >>
    [] sym = "<div>" -> << "<", "d", "i", "v", ">" >>
    [] sym = "</div>" -> << "<", "/", "d", "i", "v", ">" >>
    [] sym = "<img " -> << "<", "i", "m", "g", " " >>
    [] sym = "src=\"" -> << "s", "r", "c", "=", "\"" >>
    [] sym = "Navigation:" -> << "N", "a", "v", "i", "g", "a", "t", "i", "o", "n", ":" >>
    [] sym = "&gt;" -> << "&", "g", "t", ";" >>
    [] sym = "Page Owner" -> << "P", "a", "g", "e", " ", "O", "w", "n", "e", "r" >>
    [] sym = "PAGE OWNER" -> << "P", "A", "G", "E", " ", "O", "W", "N", "E", "R" >>
    [] sym = "Page contact" -> << "P", "a", "g", "e", " ", "c", "o", "n", "t", "a", "c", "t" >>
    [] sym = "APE" -> << "A", "P", "E" >>
    [] sym = "Billing" -> << "B", "i", "l", "l", "i", "n", "g" >>
    [] sym = "Invoices" -> << "I", "n", "v", "o", "i", "c", "e", "s" >>
    [] sym = "hi" -> << "h", "i" >>
    [] sym = "foo.fld" -> << "f", "o", "o", ".", "f", "l", "d" >>
    [] sym = "image001.png" -> << "i", "m", "a", "g", "e", "0", "0", "1", ".", "p", "n", "g" >>
    [] sym = "images" -> << "i", "m", "a", "g", "e", "s" >>
    [] sym = "ABCDEF12" -> << "A", "B", "C", "D", "E", "F", "1", "2" >>
    [] sym = ".png" -> << ".", "p", "n", "g" >>
    [] sym = ".jpg" -> << ".", "j", "p", "g" >>
    [] sym = ".gif" -> << ".", "g", "i", "f" >>
    [] sym = ".html" -> << ".", "h", "t", "m", "l" >>
    [] sym = "boundary=\"X\"" -> << "b", "o", "u", "n", "d", "a", "r", "y", "=", "\"", "X", "\"" >>
    [] sym = "--X" -> << "-", "-", "X" >>
    [] sym = "------=_Part_1" -> << "-", "-", "-", "-", "-", "-", "=", "_", "P", "a", "r", "t", "_", "1" >>
    [] sym = "Content-Type: text/html" -> << "C", "o", "n", "t", "e", "n", "t", "-", "T", "y", "p", "e", ":", " ", "t", "e", "x", "t", "/", "h", "t", "m", "l" >>
    [] sym = "Content-Type: image/png" -> << "C", "o", "n", "t", "e", "n", "t", "-", "T", "y", "p", "e", ":", " ", "i", "m", "a", "g", "e", "/", "p", "n", "g" >>
    [] sym = "Content-Transfer-Encoding: base64" -> << "C", "o", "n", "t", "e", "n", "t", "-", "T", "r", "a", "n", "s", "f", "e", "r", "-", "E", "n", "c", "o", "d", "i", "n", "g", ":", " ", "b", "a", "s", "e", "6", "4" >>
    [] sym = "Content-Transfer-Encoding: quoted-printable" -> << "C", "o", "n", "t", "e", "n", "t", "-", "T", "r", "a", "n", "s", "f", "e", "r", "-", "E", "n", "c", "o", "d", "i", "n", "g", ":", " ", "q", "u", "o", "t", "e", "d", "-", "p", "r", "i", "n", "t", "a", "b", "l", "e" >>
    [] sym = "Content-Location: file:///C:/" -> << "C", "o", "n", "t", "e", "n", "t", "-", "L", "o", "c", "a", "t", "i", "o", "n", ":", " ", "f", "i", "l", "e", ":", "/", "/", "/", "C", ":", "/" >>
    [] sym = "MIME-Version: 1.0" -> << "M", "I", "M", "E", "-", "V", "e", "r", "s", "i", "o", "n", ":", " ", "1", ".", "0" >>
    [] sym = "--" -> << "-", "-" >>
    [] sym = "<body>" -> << "<", "b", "o", "d", "y", ">" >>
    [] sym = "</body>" -> << "<", "/", "b", "o", "d", "y", ">" >>
    [] OTHER -> << sym >>

AsciiSymbols ==
  << "U+1", "U+2", "U+3", "U+4", "U+5", "U+6", "U+7", "U+8", "U+9", "\n",
     "U+11", "U+12", "\r", "U+14", "U+15", "U+16", "U+17", "U+18", "U+19", "U+20",
     "U+21", "U+22", "U+23", "U+24", "U+25", "U+26", "U+27", "U+28", "U+29", "U+30",
     "U+31", " ", "U+33", "\"", "U+35", "U+36", "U+37", "U+38", "U+39", "U+40",
     "U+41", "U+42", "+", "U+44", "U+45", ".", "/", "0", "1", "2",
     "3", "4", "5", "6", "7", "8", "9", "U+58", "U+59", "U+60",
     "=", ">", "U+63", "U+64", "A", "B", "C", "D", "E", "F",
     "G", "H", "I", "J", "K", "L", "M", "N", "O", "P",
     "Q", "R", "S", "T", "U", "V", "W", "X", "Y", "Z",
     "U+91", "\\", "U+93", "U+94", "_", "U+96", "a", "b", "c", "d",
     "e", "f", "g", "h", "i", "j", "k", "l", "m", "n",
     "o", "p", "q", "r", "s", "t", "u", "v", "w", "x",
     "y", "z", "U+123", "U+124", "U+125", "U+126", "U+127" >>

B64Alphabet ==
  << "A", "B", "C", "D", "E", "F", "G", "H", "I", "J", "K", "L", "M", "N", "O", "P",
     "Q", "R", "S", "T", "U", "V", "W", "X", "Y", "Z", "a", "b", "c", "d", "e", "f",
     "g", "h", "i", "j", "k", "l", "m", "n", "o", "p", "q", "r", "s", "t", "u", "v",
     "w", "x", "y", "z", "0", "1", "2", "3", "4", "5", "6", "7", "8", "9", "+", "/" >>

(***************************************************************************)
(* Generic helpers on sequences.                                           *)
(***************************************************************************)
Range(s) == { s[i] : i \in DOMAIN s }

Drop(s, n) == SubSeq(s, n + 1, Len(s))

Take(s, n) == SubSeq(s, 1, n)

\* the concatenation of a sequence of sequences (by halves, to keep the
\* evaluation shallow)
RECURSIVE Flatten(_)
Flatten(ss) ==
  IF Len(ss) = 0 THEN << >>
  ELSE IF Len(ss) = 1 THEN ss[1]
  ELSE LET h == Len(ss) \div 2
       IN  Flatten(SubSeq(ss, 1, h)) \o Flatten(SubSeq(ss, h + 1, Len(ss)))

\* s starts with p at position i (1-based)
MatchAt(s, p, i) == /\ i + Len(p) - 1 <= Len(s)
                    /\ \A k \in 1..Len(p) : s[i + k - 1] = p[k]

\* the least element of a non-empty set of numbers
Min(S) == CHOOSE i \in S : \A j \in S : i <= j

\* the first index >= from at which p occurs in s, 0 when there is none
FindFrom(s, p, from) ==
  LET hits == { i \in from..Len(s) : MatchAt(s, p, i) }
  IN  IF hits = {} THEN 0 ELSE Min(hits)

\* str.find(p): the first index at which p occurs, 0 when it does not
Find(s, p) == FindFrom(s, p, 1)

\* `p in s' for strings
Contains(s, p) == Find(s, p) # 0

\* str.replace(old, new): every non-overlapping occurrence, left to right
RECURSIVE ReplaceFrom(_, _, _, _)
ReplaceFrom(s, old, new, from) ==
  LET at == FindFrom(s, old, from)
  IN  IF at = 0 THEN SubSeq(s, from, Len(s))
      ELSE SubSeq(s, from, at - 1) \o new \o ReplaceFrom(s, old, new, at + Len(old))

Replace(s, old, new) == IF old = << >> THEN s ELSE ReplaceFrom(s, old, new, 1)

IsSpace(sym) == sym \in { " ", "\n", "\r" }

\* str.lstrip(), str.rstrip(), str.strip()
LStrip(s) ==
  LET keep == { i \in DOMAIN s : ~IsSpace(s[i]) }
  IN  IF keep = {} THEN << >> ELSE SubSeq(s, Min(keep), Len(s))

RStrip(s) ==
  LET keep == { i \in DOMAIN s : ~IsSpace(s[i]) }
  IN  IF keep = {} THEN << >> ELSE SubSeq(s, 1, CHOOSE i \in keep : \A j \in keep : j <= i)

Strip(s) == LStrip(RStrip(s))

\* re.sub(r'\s+', '', s)
RemoveSpace(s) == SelectSeq(s, LAMBDA sym : ~IsSpace(sym))

(***************************************************************************)
(* Code points and bytes.                                                  *)
(***************************************************************************)
Symbols == Range(AsciiSymbols) \cup Range(MultiSymbols)

Char(cp) ==
  IF cp \in DOMAIN AsciiSymbols THEN AsciiSymbols[cp]
  ELSE IF cp - 127 \in DOMAIN MultiSymbols THEN MultiSymbols[cp - 127]
  ELSE "U+" \o ToString(cp)

Code(sym) ==
  IF sym \in Range(MultiSymbols)
  THEN 127 + (CHOOSE i \in DOMAIN MultiSymbols : MultiSymbols[i] = sym)
  ELSE CHOOSE i \in DOMAIN AsciiSymbols : AsciiSymbols[i] = sym

\* str.encode('utf-8') of one code point below U+0800
Utf8Bytes(cp) ==
  IF cp < 128 THEN << cp >> ELSE << 192 + (cp \div 64), 128 + (cp % 64) >>

EncodeUtf8(text) == Flatten([i \in DOMAIN text |-> Utf8Bytes(Code(text[i]))])

\* str.encode('utf-16-le')
EncodeUtf16(text) ==
  [i \in 1..(2 * Len(text)) |->
     IF i % 2 = 1 THEN Code(text[(i + 1) \div 2]) % 256
     ELSE Code(text[i \div 2]) \div 256]

IsCont(b) == b \in 128..191

\* what the byte at i decodes to: a lead byte with its continuation bytes is
\* one character, an ill-formed byte is dropped (a continuation byte is never
\* the start of anything)
Utf8At(bytes, i) ==
  LET b == bytes[i]
      n == Len(bytes) - i + 1
      C(k) == bytes[i + k] - 128
  IN  IF b < 128 THEN << Char(b) >>
      ELSE IF b \in 194..223 /\ n >= 2 /\ IsCont(bytes[i + 1])
        THEN << Char((b - 192) * 64 + C(1)) >>
      ELSE IF /\ b \in 224..239 /\ n >= 3 /\ IsCont(bytes[i + 1]) /\ IsCont(bytes[i + 2])
              /\ (b = 224 => bytes[i + 1] >= 160) /\ (b = 237 => bytes[i + 1] < 160)
        THEN << Char((b - 224) * 4096 + C(1) * 64 + C(2)) >>
      ELSE IF /\ b \in 240..244 /\ n >= 4 /\ IsCont(bytes[i + 1]) /\ IsCont(bytes[i + 2])
              /\ IsCont(bytes[i + 3])
              /\ (b = 240 => bytes[i + 1] >= 144) /\ (b = 244 => bytes[i + 1] < 144)
        THEN << Char((b - 240) * 262144 + C(1) * 4096 + C(2) * 64 + C(3)) >>
      ELSE << >>

\* bytes.decode('utf-8', errors='ignore')
DecodeUtf8(bytes) == Flatten([i \in DOMAIN bytes |-> Utf8At(bytes, i)])

IsHighSurrogate(u) == u \in 55296..56319

IsLowSurrogate(u) == u \in 56320..57343

\* the characters of a byte string in the given byte order; errors='ignore'
\* drops a trailing odd byte and every unpaired surrogate
DecodeUnits(bytes, bigEndian) ==
  LET m == Len(bytes) \div 2
      Unit(k) == IF bigEndian THEN bytes[2 * k - 1] * 256 + bytes[2 * k]
                              ELSE bytes[2 * k - 1] + 256 * bytes[2 * k]
      At(k) == IF IsHighSurrogate(Unit(k))
               THEN IF k < m /\ IsLowSurrogate(Unit(k + 1))
                    THEN << Char(65536 + (Unit(k) - 55296) * 1024 + (Unit(k + 1) - 56320)) >>
                    ELSE << >>
               ELSE IF IsLowSurrogate(Unit(k)) THEN << >>
               ELSE << Char(Unit(k)) >>
  IN  Flatten([k \in 1..m |-> At(k)])

\* bytes.decode('utf-16', errors='ignore'): a byte order mark selects the byte
\* order and is consumed, without one the order is little-endian.  With
\* errors='ignore' the decoder never raises.
DecodeUtf16(bytes) ==
  IF Len(bytes) >= 2 /\ bytes[1] = 255 /\ bytes[2] = 254
    THEN DecodeUnits(Drop(bytes, 2), FALSE)
  ELSE IF Len(bytes) >= 2 /\ bytes[1] = 254 /\ bytes[2] = 255
    THEN DecodeUnits(Drop(bytes, 2), TRUE)
  ELSE DecodeUnits(bytes, FALSE)

(***************************************************************************)
(* base64.b64decode (binascii.a2b_base64, not strict): characters outside  *)
(* the alphabet are discarded, a pad sequence that completes a quad ends   *)
(* the data, and an incomplete quad at the end raises binascii.Error.      *)
(***************************************************************************)
IsB64Digit(c) == c \in Range(B64Alphabet)

B64Value(c) == (CHOOSE i \in DOMAIN B64Alphabet : B64Alphabet[i] = c) - 1

\* the characters of a text
Characters(text) == Flatten([i \in DOMAIN text |-> Spelling(text[i])])

\* where the data ends: the first "=" that completes a quad (after two
\* digits of a quad the second "=" in a row, after three the first), or
\* past the end
B64Stop(chars) ==
  LET Digits(i) == Cardinality({ k \in 1..(i - 1) : IsB64Digit(chars[k]) })
      LastDigit(i) == LET ds == { k \in 1..(i - 1) : IsB64Digit(chars[k]) }
                      IN  IF ds = {} THEN 0 ELSE CHOOSE k \in ds : \A j \in ds : j <= k
      Pads(i) == Cardinality({ k \in (LastDigit(i) + 1)..i : chars[k] = "=" })
      stops == { i \in DOMAIN chars : /\ chars[i] = "="
                                      /\ Digits(i) % 4 >= 2
                                      /\ (Digits(i) % 4) + Pads(i) >= 4 }
  IN  IF stops = {} THEN Len(chars) + 1 ELSE Min(stops)

\* [ok, bytes]: the bytes of the digits read, ok = FALSE when the digits
\* end inside a quad without the pads that complete it
B64Scan(chars) ==
  LET stop == B64Stop(chars)
      digits == SelectSeq(SubSeq(chars, 1, stop - 1), IsB64Digit)
      V(k) == B64Value(digits[k])
      n == Len(digits)
      count == 3 * (n \div 4) + (IF n % 4 = 3 THEN 2 ELSE IF n % 4 = 2 THEN 1 ELSE 0)
      Byte(j) == LET b == 4 * ((j - 1) \div 3) IN
                 CASE (j - 1) % 3 = 0 -> V(b + 1) * 4 + V(b + 2) \div 16
                   [] (j - 1) % 3 = 1 -> (V(b + 2) % 16) * 16 + V(b + 3) \div 4
                   [] OTHER           -> (V(b + 3) % 4) * 64 + V(b + 4)
  IN  [ok |-> stop <= Len(chars) \/ n % 4 = 0, bytes |-> [j \in 1..count |-> Byte(j)]]

\* base64.b64decode(text): [ok, bytes]; ok = FALSE stands for binascii.Error
B64Decode(text) == B64Scan(Characters(text))

\* base64.b64encode(bytes), the text a well-formed base64 body holds
B64Encode(bytes) ==
  LET n == Len(bytes)
      B(k) == IF k <= n THEN bytes[k] ELSE 0
      D(v) == B64Alphabet[v + 1]
      At(j) == LET b == 3 * ((j - 1) \div 4) IN
               CASE (j - 1) % 4 = 0 -> D(B(b + 1) \div 4)
                 [] (j - 1) % 4 = 1 -> D((B(b + 1) % 4) * 16 + B(b + 2) \div 16)
                 [] (j - 1) % 4 = 2 -> IF b + 2 > n THEN "="
                                       ELSE D((B(b + 2) % 16) * 4 + B(b + 3) \div 64)
                 [] OTHER           -> IF b + 3 > n THEN "=" ELSE D(B(b + 3) % 64)
  IN  [j \in 1..(4 * ((n + 2) \div 3)) |-> At(j)]

(***************************************************************************)
(* quopri.decodestring (binascii.a2b_qp): "=XX" is a byte, "=" before a    *)
(* line end is a soft line break, any other "=" stands for itself.         *)
(***************************************************************************)
HexDigits == << "0", "1", "2", "3", "4", "5", "6", "7", "8", "9",
                "A", "B", "C", "D", "E", "F" >>

IsHexByte(b) == b \in 48..57 \/ b \in 65..70 \/ b \in 97..102

HexValue(b) == IF b \in 48..57 THEN b - 48
               ELSE IF b \in 65..70 THEN b - 55 ELSE b - 87

\* index just past the next line feed at or after i (the rest of a soft break)
SkipLine(bytes, i) ==
  LET feeds == { k \in i..Len(bytes) : bytes[k] = 10 }
  IN  IF feeds = {} THEN Len(bytes) + 1 ELSE Min(feeds) + 1

\* from i: the bytes up to the next "=" stand for themselves, then the "="
\* is decoded
RECURSIVE QpScan(_, _)
QpScan(bytes, i) ==
  LET eqs == { k \in i..Len(bytes) : bytes[k] = 61 }
      e == Min(eqs)
  IN  IF eqs = {} THEN SubSeq(bytes, i, Len(bytes))
      ELSE SubSeq(bytes, i, e - 1) \o
        (IF e + 1 > Len(bytes) THEN << >>
         ELSE IF bytes[e + 1] = 10 \/ bytes[e + 1] = 13
           THEN QpScan(bytes, SkipLine(bytes, e + 1))
         ELSE IF bytes[e + 1] = 61 THEN << 61 >> \o QpScan(bytes, e + 2)
         ELSE IF /\ e + 2 <= Len(bytes)
                 /\ IsHexByte(bytes[e + 1]) /\ IsHexByte(bytes[e + 2])
           THEN << HexValue(bytes[e + 1]) * 16 + HexValue(bytes[e + 2]) >>
                \o QpScan(bytes, e + 3)
         ELSE << 61 >> \o QpScan(bytes, e + 1))

QpDecode(bytes) == QpScan(bytes, 1)

(***************************************************************************)
(* decode_html_content                                                     *)
(***************************************************************************)
\* the base64 branch once the bytes are there: UTF-16 with errors='ignore'
\* never raises UnicodeDecodeError, so the UTF-8 branch of the source is
\* never taken
DecodeB64Bytes(bytes) == DecodeUtf16(bytes)

\* a failed base64 decoding answered with the empty text
DecodeOrEmpty(encoded_html, encoding_type) ==
  IF encoding_type = "base64"
  THEN LET decoded == B64Decode(RemoveSpace(encoded_html))
       IN IF decoded.ok THEN DecodeB64Bytes(decoded.bytes) ELSE << >>
  ELSE IF encoding_type = "quoted-printable"
  THEN DecodeUtf8(QpDecode(EncodeUtf8(encoded_html)))
  ELSE encoded_html

decode_html_content(encoded_html, encoding_type) ==
  IF encoding_type = "base64"
  THEN LET clean_base64 == RemoveSpace(encoded_html)
           decoded == B64Decode(clean_base64)
       IN IF decoded.ok THEN DecodeB64Bytes(decoded.bytes) ELSE encoded_html
  ELSE IF encoding_type = "quoted-printable"
  THEN DecodeUtf8(QpDecode(EncodeUtf8(encoded_html)))
  ELSE encoded_html

(***************************************************************************)
(* Optional values: None is [some |-> FALSE], with a default val.          *)
(***************************************************************************)
None == [some |-> FALSE, val |-> << >>]

Some(v) == [some |-> TRUE, val |-> v]

(***************************************************************************)
(* determine_image_filename, save_images_and_update_html                   *)
(***************************************************************************)
\* os.path.basename on POSIX: what follows the last "/"
RECURSIVE Basename(_)
Basename(path) ==
  IF "/" \in Range(path) THEN Basename(Tail(path)) ELSE path

StartsWith(bytes, magic) == MatchAt(bytes, magic, 1)

determine_image_filename(image_key, image_data) ==
  IF "/" \in Range(image_key) \/ "\\" \in Range(image_key)
  THEN Basename(image_key)
  ELSE image_key \o
       << IF StartsWith(image_data, << 137, 80, 78, 71 >>) THEN ".png"
          ELSE IF StartsWith(image_data, << 255, 216, 255 >>) THEN ".jpg"
          ELSE IF StartsWith(image_data, << 71, 73, 70 >>) THEN ".gif"
          ELSE ".png" >>

\* f'src="{name}"'
SrcAttr(name) == << "src=\"" >> \o name \o << "\"" >>

ImagesPath(filename) == << "images", "/" >> \o filename

\* str.replace(old, new, 1): the first occurrence only
ReplaceFirst(s, old, new) ==
  IF Find(s, old) = 0 THEN s
  ELSE Take(s, Find(s, old) - 1) \o new \o Drop(s, Find(s, old) + Len(old) - 1)

\* the loop body with replacements of the first occurrence only
RewriteFirst(html_content, image_key, filename) ==
  LET first == ReplaceFirst(html_content, SrcAttr(image_key), SrcAttr(ImagesPath(filename)))
  IN  IF "/" \in Range(image_key)
      THEN ReplaceFirst(first, SrcAttr(filename), SrcAttr(ImagesPath(filename)))
      ELSE first

\* one pass of the loop body: the file write and the two replacements
RewriteOne(html_content, image_key, filename) ==
  LET first == Replace(html_content, SrcAttr(image_key), SrcAttr(ImagesPath(filename)))
  IN  IF "/" \in Range(image_key)
      THEN Replace(first, SrcAttr(filename), SrcAttr(ImagesPath(filename)))
      ELSE first

\* images: the dict as a sequence of [key, data] in insertion order;
\* dir: the images directory as a function from filename to bytes.
\* The result is [html, count, dir].
RECURSIVE SaveLoop(_, _, _, _)
SaveLoop(html_content, images, dir, saved_count) ==
  IF images = << >>
  THEN [html |-> html_content, count |-> saved_count, dir |-> dir]
  ELSE LET image_key == Head(images).key
           image_data == Head(images).data
           filename == determine_image_filename(image_key, image_data)
       IN SaveLoop(RewriteOne(html_content, image_key, filename), Tail(images),
                   (filename :> image_data) @@ dir, saved_count + 1)

save_images_and_update_html(html_content, images, dir) ==
  SaveLoop(html_content, images, dir, 0)

(***************************************************************************)
(* Removal of OPEN.*?PHRASE.*?CLOSE by re.sub with re.DOTALL: from the     *)
(* leftmost opening tag that has a phrase after it and a closing tag after *)
(* that, through the first closing tag that follows the first phrase.      *)
(***************************************************************************)
\* the first index > from whose symbol is in syms, 0 when there is none
NextIn(text, from, syms) ==
  LET hits == { i \in (from + 1)..Len(text) : text[i] \in syms }
  IN  IF hits = {} THEN 0 ELSE Min(hits)

\* where the match that starts at the opening tag at i ends, 0 when none does
SpanEnd(text, i, phrases, closes) ==
  LET p == NextIn(text, i, phrases)
  IN  IF p = 0 THEN 0 ELSE NextIn(text, p, closes)

RECURSIVE SubSpans(_, _, _, _, _)
SubSpans(text, i, opens, phrases, closes) ==
  LET starts == { k \in i..Len(text) :
                    text[k] \in opens /\ SpanEnd(text, k, phrases, closes) # 0 }
  IN  IF starts = {} THEN SubSeq(text, i, Len(text))
      ELSE SubSeq(text, i, Min(starts) - 1)
           \o SubSpans(text, SpanEnd(text, Min(starts), phrases, closes) + 1,
                       opens, phrases, closes)

\* r'<p>' matches the bare tag only
BareParagraphOpen == { "<p>" }

\* r'<p[^>]*>'
ParagraphOpen == { "<p>", "<p class=x>" }

ParagraphClose == { "</p>" }

\* r'[Pp]age [Oo](wner|ner)'
OwnerPhrases == { "Page Owner", "Page owner", "page Owner", "page owner",
                  "Page Oner", "Page oner", "page Oner", "page oner" }

\* r'[Pp]age [Cc]ontact'
ContactPhrases == { "Page Contact", "Page contact", "page Contact", "page contact" }

\* 'Navigation:' under re.IGNORECASE
NavigationMarkers == { "Navigation:", "navigation:", "NAVIGATION:" }

\* the first substitution without the second
RemoveOwnerOnly(html_content) ==
  SubSpans(html_content, 1, BareParagraphOpen, OwnerPhrases, ParagraphClose)

remove_confluence_metadata(html_content) ==
  LET owner == SubSpans(html_content, 1, BareParagraphOpen, OwnerPhrases, ParagraphClose)
  IN  SubSpans(owner, 1, BareParagraphOpen, ContactPhrases, ParagraphClose)

remove_navigation_from_html(html_content) ==
  LET paragraphs == SubSpans(html_content, 1, ParagraphOpen, NavigationMarkers,
                             ParagraphClose)
  IN  SubSpans(paragraphs, 1, { "<div>" }, NavigationMarkers, { "</div>" })

(***************************************************************************)
(* extract_navigation_from_html                                            *)
(***************************************************************************)
\* symbols that are a whole tag, and symbols that only open one
TagSymbols == { "<html>", "</html>", "<body>", "</body>", "<p>", "<p class=x>", "</p>",
                "<div>", "</div>" }

TagOpeners == { "<img " }

\* symbols holding a ">"
TagEnders == TagSymbols \cup { ">" }

\* re.sub(r'<[^>]+>', '', html): where the tag that starts at i ends, 0 when
\* no tag starts there
TagEnd(text, i) ==
  IF text[i] \in TagSymbols THEN i
  ELSE IF text[i] \in TagOpeners THEN NextIn(text, i, TagEnders)
  ELSE 0

RECURSIVE StripTags(_, _)
StripTags(text, i) ==
  LET tags == { k \in i..Len(text) : TagEnd(text, k) # 0 }
  IN  IF tags = {} THEN SubSeq(text, i, Len(text))
      ELSE SubSeq(text, i, Min(tags) - 1) \o StripTags(text, TagEnd(text, Min(tags)) + 1)

\* r'(?:\n\n|\r\n\r\n|$)' at position i (the next symbol to read)
NavTerminatorAt(text, i) ==
  \/ MatchAt(text, << "\n", "\n" >>, i)
  \/ MatchAt(text, << "\r", "\n", "\r", "\n" >>, i)
  \/ i = Len(text) + 1
  \/ i = Len(text) /\ text[i] = "\n"

\* html.unescape
Unescape(text) == [i \in DOMAIN text |-> IF text[i] = "&gt;" THEN ">" ELSE text[i]]

\* re.sub(r'\s+', ' ', text): a space that follows a space is dropped once
\* every white space is a space
CollapseSpace(text) ==
  LET spaced == [i \in DOMAIN text |-> IF IsSpace(text[i]) THEN " " ELSE text[i]]
      keep == { i \in DOMAIN text : ~(i > 1 /\ IsSpace(text[i]) /\ IsSpace(text[i - 1])) }
  IN  [k \in 1..Cardinality(keep) |->
         spaced[CHOOSE i \in keep : Cardinality({ j \in keep : j <= i }) = k]]

\* group(1) of r'Navigation:\s*(.+?)(?:\n\n|\r\n\r\n|$)' on the text that
\* follows the marker: \s* is greedy and gives back one symbol only when
\* nothing else is left for the group
NavGroup(rest) ==
  LET w == Len(rest) - Len(LStrip(rest))
      start == IF w = Len(rest) THEN w ELSE w + 1
      ends == { e \in start..Len(rest) : NavTerminatorAt(rest, e + 1) }
  IN  SubSeq(rest, start, Min(ends))

extract_navigation_from_html(html_content) ==
  LET plain_text == StripTags(html_content, 1)
      at == NextIn(plain_text, 0, NavigationMarkers)
  IN  IF at = 0 \/ at = Len(plain_text) THEN None
      ELSE Some(CollapseSpace(Unescape(Strip(NavGroup(Drop(plain_text, at))))))

(***************************************************************************)
(* parse_navigation_path, generate_html_filename                           *)
(***************************************************************************)
\* str.split(sep): the pieces between the occurrences of the symbol sep
RECURSIVE Split(_, _)
Split(text, sep) ==
  LET at == NextIn(text, 0, { sep })
  IN  IF at = 0 THEN << text >>
      ELSE << Take(text, at - 1) >> \o Split(Drop(text, at), sep)

\* the split without the strip of each piece
SplitNavigationPath(nav_path) == Split(nav_path, ">")

parse_navigation_path(nav_path) ==
  LET pieces == Split(nav_path, ">")
  IN  [i \in DOMAIN pieces |-> Strip(pieces[i])]

\* sep.join(parts)
RECURSIVE Join(_, _)
Join(parts, sep) ==
  IF parts = << >> THEN << >>
  ELSE IF Len(parts) = 1 THEN parts[1]
  ELSE parts[1] \o << sep >> \o Join(Tail(parts), sep)

generate_html_filename(navigation_parts) ==
  LET clean_parts == [i \in DOMAIN navigation_parts |->
                        SelectSeq(navigation_parts[i], LAMBDA sym : sym # " ")]
  IN  Join(clean_parts, "_") \o << ".html" >>

(***************************************************************************)
(* MIME parts: _split_mime_parts, _extract_html_from_part,                 *)
(* extract_image_from_part, extract_base64_image                           *)
(***************************************************************************)
BoundaryDecl == "boundary=\"X\""

\* '--' + boundary for the declared boundary X
Delimiter == "--X"

\* r'------=_(Part|NextPart)_[A-F0-9._]+' and the text of its group
LegacyMarker == "------=_Part_1"

LegacyGroup == << "P", "a", "r", "t" >>

\* re.split with a capturing group: the group's text sits between the pieces
RECURSIVE SplitLegacy(_)
SplitLegacy(text) ==
  LET at == NextIn(text, 0, { LegacyMarker })
  IN  IF at = 0 THEN << text >>
      ELSE << Take(text, at - 1), LegacyGroup >> \o SplitLegacy(Drop(text, at))

_split_mime_parts(text) ==
  IF BoundaryDecl \in Range(text) THEN Split(text, Delimiter) ELSE SplitLegacy(text)

ContentTypeHtml == "Content-Type: text/html"

EncodingBase64 == "Content-Transfer-Encoding: base64"

EncodingQp == "Content-Transfer-Encoding: quoted-printable"

ContentLocation == "Content-Location: file:///C:/"

BlankLine == << "\n", "\n" >>

_extract_html_from_part(part) ==
  LET content_start == Find(part, BlankLine)
      encoded_html == Strip(Drop(part, content_start + 1))
  IN  IF content_start = 0 THEN None
      ELSE IF EncodingBase64 \in Range(part)
        THEN Some(decode_html_content(encoded_html, "base64"))
      ELSE IF EncodingQp \in Range(part)
        THEN Some(decode_html_content(encoded_html, "quoted-printable"))
      ELSE Some(encoded_html)

extract_base64_image(part, image_key) ==
  LET content_start == Find(part, BlankLine)
      base64_data == RemoveSpace(Strip(Drop(part, content_start + 1)))
      decoded == B64Decode(base64_data)
  IN  IF content_start = 0 \/ ~decoded.ok THEN None
      ELSE Some([key |-> image_key, data |-> decoded.bytes])

\* r'[a-fA-F0-9]+'
HexSymbols == { "ABCDEF12", "0", "1", "2", "3", "4", "5", "6", "7", "8", "9",
                "A", "B", "C", "D", "E", "F", "a", "b", "c", "d", "e", "f" }

\* r'\.(?:png|jpg|jpeg|gif)' ends here
ImageNameEnds == { "image001.png", ".png", ".jpg", ".gif" }

\* the end of the run of hex symbols that starts at i (i - 1 when empty)
RECURSIVE HexRunEnd(_, _)
HexRunEnd(part, i) ==
  IF i <= Len(part) /\ part[i] \in HexSymbols THEN HexRunEnd(part, i + 1) ELSE i - 1

\* group(1) of pattern 1 for the header at i: [some, val]
PathKeyAt(part, i) ==
  LET h == HexRunEnd(part, i + 1)
      e == NextIn(part, h + 1, ImageNameEnds)
  IN  IF /\ part[i] = ContentLocation /\ h > i
         /\ h + 1 <= Len(part) /\ part[h + 1] = "/"
         /\ e # 0 /\ \A k \in (h + 2)..e : part[k] # "\n"
      THEN Some(SubSeq(part, h + 2, e)) ELSE None

\* group(1) of pattern 2 for the header at i: `$' is the end of the part,
\* or the place before a line feed that ends the part
HashKeyAt(part, i) ==
  LET h == HexRunEnd(part, i + 1)
  IN  IF /\ part[i] = ContentLocation /\ h > i
         /\ (h = Len(part) \/ (h = Len(part) - 1 /\ part[Len(part)] = "\n"))
      THEN Some(SubSeq(part, i + 1, h)) ELSE None

\* re.search: the leftmost position at which the pattern matches
FirstPathKey(part) ==
  LET hits == { i \in DOMAIN part : PathKeyAt(part, i).some }
  IN  IF hits = {} THEN None ELSE PathKeyAt(part, Min(hits))

FirstHashKey(part) ==
  LET hits == { i \in DOMAIN part : HashKeyAt(part, i).some }
  IN  IF hits = {} THEN None ELSE HashKeyAt(part, Min(hits))

extract_image_from_part(part) ==
  IF EncodingBase64 \notin Range(part) THEN None
  ELSE IF FirstPathKey(part).some
    THEN extract_base64_image(part, FirstPathKey(part).val)
  ELSE IF FirstHashKey(part).some
    THEN extract_base64_image(part, FirstHashKey(part).val)
  ELSE None

(***************************************************************************)
(* extract_html_and_images                                                 *)
(***************************************************************************)
\* images[image_key] = image_data on an insertion-ordered dict
DictSet(images, image_key, image_data) ==
  IF \E i \in DOMAIN images : images[i].key = image_key
  THEN [i \in DOMAIN images |->
          IF images[i].key = image_key THEN [key |-> image_key, data |-> image_data]
          ELSE images[i]]
  ELSE Append(images, [key |-> image_key, data |-> image_data])

\* `if image_result: image_key, image_data = image_result; images[...] = ...'
AddImage(images, image_result) ==
  IF image_result.some
  THEN DictSet(images, image_result.val.key, image_result.val.data)
  ELSE images

\* the loop without `html_content is None': every text/html part replaces
\* the document found so far
RECURSIVE PartLoopLast(_, _, _)
PartLoopLast(parts, html_content, images) ==
  IF parts = << >> THEN [html |-> html_content, images |-> images]
  ELSE IF ContentTypeHtml \in Range(Head(parts))
  THEN PartLoopLast(Tail(parts), _extract_html_from_part(Head(parts)), images)
  ELSE PartLoopLast(Tail(parts), html_content,
                    AddImage(images, extract_image_from_part(Head(parts))))

\* the loop over the parts; html_content is None until a text/html part
\* has yielded a document.  The result is [html, images].
RECURSIVE PartLoop(_, _, _)
PartLoop(parts, html_content, images) ==
  IF parts = << >> THEN [html |-> html_content, images |-> images]
  ELSE IF ContentTypeHtml \in Range(Head(parts)) /\ ~html_content.some
  THEN PartLoop(Tail(parts), _extract_html_from_part(Head(parts)), images)
  ELSE PartLoop(Tail(parts), html_content,
                AddImage(images, extract_image_from_part(Head(parts))))

\* '<html' in html_content.lower()
HtmlOpeners == { "<html>", "<HTML>" }

\* `not html_content or '<html' not in html_content.lower()'
IsValidHtml(html_content) ==
  /\ html_content.some
  /\ html_content.val # << >>
  /\ Range(html_content.val) \cap HtmlOpeners # {}

NoHtmlError == "Could not extract valid HTML content"

\* [success, result, error, num_images, dir]: result is the HTML on success,
\* error the message otherwise; dir is the images directory afterwards.
\* The last step: the sanitised HTML and the number of images saved.
Sanitized(saved) ==
  [success |-> TRUE, result |-> remove_confluence_metadata(saved.html),
   error |-> "", num_images |-> saved.count, dir |-> saved.dir]

\* the images saved before the validation of the HTML
SaveThenValidate(found, dir) ==
  IF ~IsValidHtml(found.html)
  THEN [success |-> FALSE, result |-> << >>, error |-> NoHtmlError, num_images |-> 0,
        dir |-> save_images_and_update_html(found.html.val, found.images, dir).dir]
  ELSE Sanitized(save_images_and_update_html(found.html.val, found.images, dir))

\* the validation of what the parts yielded, then the saving of the images
ValidateAndSave(found, dir) ==
  IF ~IsValidHtml(found.html)
  THEN [success |-> FALSE, result |-> << >>, error |-> NoHtmlError,
        num_images |-> 0, dir |-> dir]
  ELSE Sanitized(save_images_and_update_html(found.html.val, found.images, dir))

extract_html_and_images(text, dir) ==
  ValidateAndSave(PartLoop(_split_mime_parts(text), None, << >>), dir)

(***************************************************************************)
(* allowed_file, and the uploaded file names the requests carry.           *)
(***************************************************************************)
ALLOWED_EXTENSIONS == { "doc" }

\* str.lower() on the extensions in use
Lower(sym) == IF sym = "DOC" THEN "doc" ELSE sym

\* filename.rsplit('.', 1)[1]: what follows the last "."
RECURSIVE Extension(_)
Extension(filename) ==
  IF "." \in Range(filename) THEN Extension(Tail(filename)) ELSE filename

allowed_file(filename) ==
  /\ "." \in Range(filename)
  /\ Len(Extension(filename)) = 1
  /\ Lower(Extension(filename)[1]) \in ALLOWED_EXTENSIONS

\* the gate written as `nav_breadcrumb is None': an empty breadcrumb passes
NavigationPresent(nav_breadcrumb) == nav_breadcrumb.some

(***************************************************************************)
(* upload_file: the steps between the conversion and the response.         *)
(***************************************************************************)
\* `if not nav_breadcrumb' is the negation of this
NavigationFound(nav_breadcrumb) == nav_breadcrumb.some /\ nav_breadcrumb.val # << >>

NoNavigationError ==
  "No navigation found in document. Please add a navigation line like: <p>Navigation: Category > Subcategory > Document Title</p>"

\* an entry is set only when the file name has none yet
AddMetadataIfAbsent(store, html_filename, navigation, full_navigation) ==
  IF html_filename \in DOMAIN store THEN store
  ELSE (html_filename :> [filename |-> html_filename,
                          navigation |-> navigation,
                          full_navigation |-> full_navigation,
                          path |-> << "upload-html", "/" >> \o html_filename]) @@ store

\* add_document_metadata: load, set the entry of html_filename, save
add_document_metadata(store, html_filename, navigation, full_navigation) ==
  (html_filename :> [filename |-> html_filename,
                     navigation |-> navigation,
                     full_navigation |-> full_navigation,
                     path |-> << "upload-html", "/" >> \o html_filename]) @@ store

\* open(html_path, 'w').write(result)
WriteFile(dir, name, content) == (name :> content) @@ dir

\* upload_path.unlink()
Unlink(dir, name) == [n \in DOMAIN dir \ { name } |-> dir[n]]

(***************************************************************************)
(* The uploaded documents.  A document is the text of a .doc export: a     *)
(* preamble and MIME parts between delimiters.                             *)
(***************************************************************************)
HtmlHeaders(encoding) ==
  << "\n", ContentTypeHtml, "\n" >> \o
  (IF encoding = "" THEN << >> ELSE << encoding, "\n" >>)

\* headers, blank line, body
HtmlPart(encoding, body) == HtmlHeaders(encoding) \o << "\n" >> \o body \o << "\n" >>

\* a text/html part whose headers are not followed by a blank line
HeaderOnlyHtmlPart == << "\n", ContentTypeHtml, "\n" >>

\* a text/html part with a blank line and nothing after it
EmptyHtmlPart == HtmlPart("", << >>)

Utf16Base64(html) == B64Encode(EncodeUtf16(html))

Utf8Base64(html) == B64Encode(EncodeUtf8(html))

PngBytes == << 137, 80, 78, 71, 1 >>

JpgBytes == << 255, 216, 255, 2 >>

ImagePart(image_key, bytes) ==
  << "\n", "Content-Type: image/png", "\n", EncodingBase64, "\n",
     ContentLocation, "ABCDEF12", "/" >> \o image_key \o << "\n", "\n" >>
  \o B64Encode(bytes) \o << "\n" >>

\* an image part located by a bare hash
HashImagePart(bytes) ==
  << "\n", "Content-Type: image/png", "\n", EncodingBase64, "\n",
     ContentLocation, "ABCDEF12", "\n", "\n" >> \o B64Encode(bytes) \o << "\n" >>

Preamble == << "MIME-Version: 1.0", "\n", BoundaryDecl, "\n", "\n" >>

RECURSIVE Delimited(_, _)
Delimited(parts, marker) ==
  IF parts = << >> THEN << marker, "--", "\n" >>
  ELSE << marker >> \o Head(parts) \o Delimited(Tail(parts), marker)

\* a document that declares its boundary
Doc(parts) == Preamble \o Delimited(parts, Delimiter)

\* a document of the legacy exporter: markers, no declaration
LegacyDoc(parts) == << "MIME-Version: 1.0", "\n", "\n" >> \o Delimited(parts, LegacyMarker)

FooImage == << "foo.fld", "/", "image001.png" >>

Crumb(segments) == << "<p>", "Navigation:", " " >> \o segments \o << "</p>" >>

Page(body) == << "<html>", "<body>" >> \o body \o << "</body>", "</html>" >>

Img(name) == << "<img " >> \o SrcAttr(name) \o << ">" >>

\* Scenario A of the specification
HtmlA == Page(Crumb(<< "APE", " ", "&gt;", " ", "Billing", " ", "&gt;", " ", "Invoices" >>)
              \o << "<p>", "hi", "</p>" >>)

\* Scenario B: no breadcrumb paragraph
HtmlB == Page(<< "<p>", "hi", "</p>" >>)

\* breadcrumb followed by a blank line, as the exporter writes it
HtmlBilling == Page(Crumb(<< "APE", " ", "&gt;", " ", "Billing" >>) \o BlankLine
                    \o Img(FooImage) \o Img(<< "image001.png" >>) \o << "<p>", "hi", "</p>" >>)

\* the same breadcrumb with other spacing and another body
HtmlBilling2 == Page(Crumb(<< "APE", "&gt;", "\n", "Billing", " " >>) \o BlankLine
                     \o << "<p>", "Invoices", "</p>" >>)

HtmlInvoices == Page(Crumb(<< "APE", " ", "&gt;", " ", "Invoices" >>) \o BlankLine
                     \o << "<p>", "hi", " ", "hi", "</p>" >>)

\* a breadcrumb that ends in a separator
HtmlTrailing == Page(Crumb(<< "APE", " ", "&gt;", " " >>) \o BlankLine
                     \o << "<p>", "hi", "</p>" >>)

\* a marker with nothing but a space after it
HtmlEmptyCrumb == << "<html>" >> \o Crumb(<< >>)

\* no html tag
HtmlFragment == Crumb(<< "APE" >>) \o BlankLine \o << "<p>", "hi", "</p>" >>

\* boilerplate paragraphs of the exporter
HtmlOwner == Page(<< "<div>", "Navigation:", " ", "APE", " ", ">", " ", "hi", "</div>" >>
                  \o BlankLine
                  \o << "<p>", "Page Owner", "</p>", "<p class=x>", "Page contact", "</p>" >>)

HtmlOwnerAfterCrumb == Page(Crumb(<< "APE", " ", "&gt;", " ", "hi" >>) \o BlankLine
                            \o << "<p>", "Page Owner", "</p>", "<p>", "hi", "</p>" >>)

\* base64 text cut short: b64decode raises
Truncated(body) == Take(body, Len(body) - 1)

Docs ==
  { Doc(<< HtmlPart(EncodingBase64, Utf16Base64(HtmlA)), ImagePart(FooImage, PngBytes) >>),
    Doc(<< HtmlPart(EncodingBase64, Utf16Base64(HtmlB)), ImagePart(FooImage, PngBytes) >>),
    Doc(<< HtmlPart(EncodingBase64, Utf16Base64(HtmlBilling)),
           ImagePart(FooImage, PngBytes) >>),
    Doc(<< HtmlPart(EncodingBase64, Utf16Base64(HtmlBilling2)) >>),
    Doc(<< ImagePart(FooImage, JpgBytes), HtmlPart(EncodingQp, HtmlBilling2),
           ImagePart(<< "images", "/", "image001.png" >>, PngBytes),
           ImagePart(FooImage, PngBytes) >>),
    Doc(<< HtmlPart("", HtmlInvoices), HashImagePart(JpgBytes) >>),
    Doc(<< HtmlPart(EncodingBase64, Utf16Base64(HtmlTrailing)) >>),
    Doc(<< HtmlPart(EncodingBase64, Utf16Base64(HtmlEmptyCrumb)),
           ImagePart(FooImage, JpgBytes) >>),
    Doc(<< HtmlPart(EncodingBase64, Utf16Base64(HtmlFragment)),
           ImagePart(FooImage, PngBytes) >>),
    Doc(<< ImagePart(FooImage, PngBytes) >>),
    Doc(<< HtmlPart(EncodingBase64, Truncated(Utf16Base64(HtmlInvoices))),
           ImagePart(FooImage, PngBytes) >>),
    Doc(<< HtmlPart(EncodingBase64, HtmlInvoices), ImagePart(FooImage, PngBytes) >>),
    Doc(<< HeaderOnlyHtmlPart, HtmlPart(EncodingBase64, Utf16Base64(HtmlInvoices)) >>),
    Doc(<< HtmlPart(EncodingBase64, Utf16Base64(HtmlBilling)),
           HtmlPart(EncodingBase64, Utf16Base64(HtmlInvoices)) >>),
    Doc(<< EmptyHtmlPart, HtmlPart(EncodingBase64, Utf16Base64(HtmlA)) >>),
    Doc(<< HtmlPart(EncodingBase64, Utf16Base64(HtmlOwner)) >>),
    Doc(<< HtmlPart(EncodingBase64, Utf16Base64(HtmlOwnerAfterCrumb)),
           ImagePart(FooImage, PngBytes) >>),
    LegacyDoc(<< HtmlPart(EncodingQp, HtmlInvoices), ImagePart(FooImage, PngBytes) >>),
    HtmlPart("", HtmlBilling) }

(***************************************************************************)
(* The server: the upload folder, the output folder (HTML files, the       *)
(* images directory, metadata.json), and the handler of POST /api/upload.  *)
(***************************************************************************)
VARIABLES
  uploadDir,    \* upload/: file name -> text of the uploaded document
  imagesDir,    \* upload-html/images/: file name -> bytes
  htmlFiles,    \* upload-html/*.html: file name -> HTML text
  metadata,     \* upload-html/metadata.json: file name -> entry
  request,      \* the request handled last
  response,     \* its response
  log,          \* the responses of the successful conversions, with the HTML written
  served,       \* the number of requests handled
  before,       \* the output folder as the request handled last found it
  call          \* a call of one function of the pipeline on its own

vars == << uploadDir, imagesDir, htmlFiles, metadata, request, response, log, served,
          before, call >>

server == << uploadDir, imagesDir, htmlFiles, metadata, request, response, log, served,
            before >>

\* the output folder
Snapshot == [imagesDir |-> imagesDir, htmlFiles |-> htmlFiles, metadata |-> metadata]

\* the number of requests a behaviour handles
MaxUploads == 2

DocName == << "page", ".", "doc" >>

\* request.files: [has_file, filename, text]
Requests ==
  { [has_file |-> FALSE, filename |-> << >>, text |-> << >>],
    [has_file |-> TRUE, filename |-> << >>, text |-> << >>],
    [has_file |-> TRUE, filename |-> << "page", ".", "txt" >>, text |-> HtmlA] }
  \cup { [has_file |-> TRUE, filename |-> DocName, text |-> d] : d \in Docs }

NoResponse ==
  [status |-> 0, success |-> FALSE, error |-> "", filename |-> << >>,
   html_filename |-> << >>, html_path |-> << >>, images |-> 0,
   navigation |-> << >>, full_navigation |-> << >>]

\* jsonify({'error': ...}) or {'success': False, 'error': ...} with its status
ErrorResponse(status, error) == [NoResponse EXCEPT !.status = status, !.error = error]

IdleCall == [fn |-> "", arg |-> << >>, done |-> FALSE, res |-> << >>]

ServerInit ==
  /\ uploadDir = << >>
  /\ imagesDir = << >>
  /\ htmlFiles = << >>
  /\ metadata = << >>
  /\ request = [has_file |-> FALSE, filename |-> << >>, text |-> << >>]
  /\ response = NoResponse
  /\ log = << >>
  /\ served = 0
  /\ before = [imagesDir |-> << >>, htmlFiles |-> << >>, metadata |-> << >>]

Init == ServerInit /\ call = IdleCall

\* the handler returns before anything is written
Reject(req, status, error) ==
  /\ served < MaxUploads
  /\ request' = req
  /\ response' = ErrorResponse(status, error)
  /\ served' = served + 1
  /\ before' = Snapshot
  /\ UNCHANGED << uploadDir, imagesDir, htmlFiles, metadata, log, call >>

UploadNoFilePart ==
  \E req \in Requests :
    /\ ~req.has_file
    /\ Reject(req, 400, "No file part")

UploadNoSelectedFile ==
  \E req \in Requests :
    /\ req.has_file /\ req.filename = << >>
    /\ Reject(req, 400, "No selected file")

UploadInvalidType ==
  \E req \in Requests :
    /\ req.has_file /\ req.filename # << >> /\ ~allowed_file(req.filename)
    /\ Reject(req, 400, "Invalid file type. Only .doc files are allowed")

\* the request reaches the conversion
Accepted(req) == req.has_file /\ req.filename # << >> /\ allowed_file(req.filename)

\* extract_html_and_images returned success = False
ConversionFailed(req, conv) ==
  /\ ~conv.success
  /\ uploadDir' = WriteFile(uploadDir, req.filename, req.text)
  /\ imagesDir' = conv.dir
  /\ request' = req
  /\ response' = ErrorResponse(500, conv.error)
  /\ served' = served + 1
  /\ before' = Snapshot
  /\ UNCHANGED << htmlFiles, metadata, log, call >>

UploadConversionFailed ==
  \E req \in Requests :
    /\ served < MaxUploads
    /\ Accepted(req)
    /\ ConversionFailed(req, extract_html_and_images(req.text, imagesDir))

\* the conversion succeeded and `not nav_breadcrumb' holds
NavigationMissing(req, conv) ==
  /\ conv.success
  /\ ~NavigationFound(extract_navigation_from_html(conv.result))
  /\ uploadDir' = WriteFile(uploadDir, req.filename, req.text)
  /\ imagesDir' = conv.dir
  /\ request' = req
  /\ response' = ErrorResponse(400, NoNavigationError)
  /\ served' = served + 1
  /\ before' = Snapshot
  /\ UNCHANGED << htmlFiles, metadata, log, call >>

UploadNavigationMissing ==
  \E req \in Requests :
    /\ served < MaxUploads
    /\ Accepted(req)
    /\ NavigationMissing(req, extract_html_and_images(req.text, imagesDir))

\* the success response
SuccessResponse(filename, html_filename, num_images, nav_parts, nav_breadcrumb) ==
  [NoResponse EXCEPT !.status = 200, !.success = TRUE, !.filename = filename,
                     !.html_filename = html_filename,
                     !.html_path = << "upload-html", "/" >> \o html_filename,
                     !.images = num_images,
                     !.navigation = nav_parts, !.full_navigation = nav_breadcrumb]

\* the HTML file, its metadata entry, the removal of the upload, the response
Store(req, num_images, result, nav_parts, html_filename, nav_breadcrumb, answer) ==
  /\ uploadDir' = Unlink(WriteFile(uploadDir, req.filename, req.text), req.filename)
  /\ htmlFiles' = WriteFile(htmlFiles, html_filename, result)
  /\ metadata' = add_document_metadata(metadata, html_filename, nav_parts,
                                       nav_breadcrumb)
  /\ request' = req
  /\ response' = answer
  /\ log' = Append(log, [response |-> answer, html |-> result])
  /\ served' = served + 1
  /\ before' = Snapshot
  /\ UNCHANGED call

Named(req, num_images, result, nav_parts, html_filename, nav_breadcrumb) ==
  Store(req, num_images, result, nav_parts, html_filename, nav_breadcrumb,
        SuccessResponse(req.filename, html_filename, num_images, nav_parts,
                        nav_breadcrumb))

Parsed(req, num_images, result, nav_parts, nav_breadcrumb) ==
  Named(req, num_images, result, nav_parts, generate_html_filename(nav_parts),
        nav_breadcrumb)

Navigated(req, conv, nav_breadcrumb) ==
  /\ NavigationFound(nav_breadcrumb)
  /\ imagesDir' = conv.dir
  /\ Parsed(req, conv.num_images, remove_navigation_from_html(conv.result),
            parse_navigation_path(nav_breadcrumb.val), nav_breadcrumb.val)

\* the conversion succeeded and the breadcrumb was found
Converted(req, conv) ==
  /\ conv.success
  /\ Navigated(req, conv, extract_navigation_from_html(conv.result))

UploadConverted ==
  \E req \in Requests :
    /\ served < MaxUploads
    /\ Accepted(req)
    /\ Converted(req, extract_html_and_images(req.text, imagesDir))

Next ==
  \/ UploadNoFilePart
  \/ UploadNoSelectedFile
  \/ UploadInvalidType
  \/ UploadConversionFailed
  \/ UploadNavigationMissing
  \/ UploadConverted

Spec == Init /\ [][Next]_vars

(***************************************************************************)
(* The functions of the pipeline called on their own: the initial state    *)
(* draws the arguments, the one step applies the function.                 *)
(***************************************************************************)
\* the sequences over S of length at most n
SeqsUpTo(S, n) == UNION { [1..k -> S] : k \in 0..n }

\* the length of the texts decoded
MaxTextLen == 3

TextSymbols == { "h", "i", "<p>", "\n" }

DecodeInputs ==
  { [text |-> x, charset |-> c] : x \in SeqsUpTo(TextSymbols, MaxTextLen),
                                  c \in { "utf-8", "utf-16" } }

\* x.encode(charset), base64-encoded
Base64Of(x, charset) ==
  B64Encode(IF charset = "utf-16" THEN EncodeUtf16(x) ELSE EncodeUtf8(x))

InitDecode ==
  /\ ServerInit
  /\ call \in { [fn |-> "decode_html_content", arg |-> a, done |-> FALSE, res |-> << >>] :
                a \in DecodeInputs }

CallDecode ==
  /\ call.fn = "decode_html_content"
  /\ ~call.done
  /\ call' = [call EXCEPT !.done = TRUE,
                          !.res = decode_html_content(
                                    Base64Of(call.arg.text, call.arg.charset), "base64")]
  /\ UNCHANGED server

SpecDecode == InitDecode /\ [][CallDecode]_vars

\* the number of src attributes of the HTML rewritten, and of assets
MaxRefs == 2

MaxAssets == 2

RewriteNames ==
  { FooImage, << "image001.png" >>, << "images", "/", "image001.png" >>, << "ABCDEF12" >> }

RewriteKeys == { FooImage, << "images", "/", "image001.png" >>, << "ABCDEF12" >> }

RewriteHtmls ==
  { Flatten([i \in DOMAIN names |-> Img(names[i])]) : names \in SeqsUpTo(RewriteNames, MaxRefs) }

\* the dicts: keys are distinct
RewriteAssets ==
  { images \in SeqsUpTo([key : RewriteKeys, data : { PngBytes, JpgBytes }], MaxAssets) :
      \A i, j \in DOMAIN images : images[i].key = images[j].key => i = j }

InitRewrite ==
  /\ ServerInit
  /\ call \in { [fn |-> "save_images_and_update_html",
                 arg |-> [html |-> h, images |-> a], done |-> FALSE, res |-> << >>] :
                h \in RewriteHtmls, a \in RewriteAssets }

CallRewrite ==
  /\ call.fn = "save_images_and_update_html"
  /\ ~call.done
  /\ call' = [call EXCEPT !.done = TRUE,
                          !.res = save_images_and_update_html(call.arg.html,
                                                              call.arg.images, << >>)]
  /\ UNCHANGED server

SpecRewrite == InitRewrite /\ [][CallRewrite]_vars

\* the number of paragraphs of the HTML sanitised
MaxParagraphs == 2

\* Scenario D: the text of <p>Page Owner: Jane Doe</p>
JaneDoe == << "Page Owner", ":", " ", "J", "a", "n", "e", " ", "D", "o", "e" >>

\* the text of a breadcrumb paragraph
CrumbText == << "Navigation:", " ", "APE", " ", "&gt;", " ", "hi" >>

ParagraphTexts ==
  { << "Page Owner" >>, << "PAGE OWNER" >>, << "Page contact" >>, << "hi" >>, JaneDoe,
    CrumbText }

Paragraph(open, text) == << open >> \o text \o << "</p>" >>

Paragraphs == { Paragraph(open, text) : open \in ParagraphOpen, text \in ParagraphTexts }

SanitizeInputs == { Flatten(ps) : ps \in SeqsUpTo(Paragraphs, MaxParagraphs) }

InitSanitize ==
  /\ ServerInit
  /\ call \in { [fn |-> "remove_confluence_metadata", arg |-> h, done |-> FALSE,
                 res |-> << >>] : h \in SanitizeInputs }

CallSanitize ==
  /\ call.fn = "remove_confluence_metadata"
  /\ ~call.done
  /\ call' = [call EXCEPT !.done = TRUE, !.res = remove_confluence_metadata(call.arg)]
  /\ UNCHANGED server

SpecSanitize == InitSanitize /\ [][CallSanitize]_vars

(***************************************************************************)
(* Properties of the upload handler.                                       *)
(***************************************************************************)
\* the request handled last reached the conversion
Converting == served > 0 /\ Accepted(request)

\* the conversion of the request handled last, on the directory it found
LastConversion == extract_html_and_images(request.text, before.imagesDir)

\* C1: whenever the conversion of an upload succeeds but no breadcrumb is
\* found in its HTML (none, or an empty one), the upload is answered with the
\* error "No navigation found in document. ...", no HTML file is written and
\* the metadata are unchanged, while the images directory is the one
\* save_images_and_update_html left: the images written stay on disk.
C1_NavigationMissingKeepsImages ==
  (/\ Converting
   /\ LastConversion.success
   /\ extract_navigation_from_html(LastConversion.result) \in { None, Some(<< >>) })
  => /\ response.status = 400
     /\ ~response.success
     /\ response.error = NoNavigationError
     /\ htmlFiles = before.htmlFiles
     /\ metadata = before.metadata
     /\ imagesDir = LastConversion.dir
     /\ \A name \in DOMAIN LastConversion.dir :
          name \in DOMAIN imagesDir /\ imagesDir[name] = LastConversion.dir[name]

\* an upload rejected for its missing breadcrumb has left its image on disk
C1_Witness ==
  /\ served = 1
  /\ response.status = 400
  /\ response.error = NoNavigationError
  /\ DOMAIN imagesDir = { << "image001.png" >> }
  /\ imagesDir[<< "image001.png" >>] = PngBytes
  /\ htmlFiles = << >>
  /\ metadata = << >>

\* Scenario A: boundary "X", the HTML as base64 of UTF-16, one image part
ScenarioA ==
  Doc(<< HtmlPart(EncodingBase64, Utf16Base64(HtmlA)), ImagePart(FooImage, PngBytes) >>)

\* C2: the upload of Scenario A succeeds with navigation APE, Billing,
\* Invoices, the HTML file APE_Billing_Invoices.html and one image saved,
\* and the HTML written refers to images/image001.png and has no
\* Navigation: text.
C2_ScenarioA ==
  (Converting /\ request.text = ScenarioA)
  => /\ response.success
     /\ response.navigation = << << "APE" >>, << "Billing" >>, << "Invoices" >> >>
     /\ response.html_filename = << "APE", "_", "Billing", "_", "Invoices", ".html" >>
     /\ response.images = 1
     /\ response.html_filename \in DOMAIN htmlFiles
     /\ Contains(htmlFiles[response.html_filename],
                 SrcAttr(ImagesPath(<< "image001.png" >>)))
     /\ "Navigation:" \notin Range(htmlFiles[response.html_filename])

\* the parts of the request handled last, in split order
LastParts == _split_mime_parts(request.text)

\* what the loop over them yields
LastFound == PartLoop(LastParts, None, << >>)

\* the parts that declare Content-Type: text/html
HtmlParts(parts) == { i \in DOMAIN parts : ContentTypeHtml \in Range(parts[i]) }

\* those of them with a blank line after the headers: the extraction yields text
ExtractableHtmlParts(parts) ==
  { i \in HtmlParts(parts) : _extract_html_from_part(parts[i]).some }

\* C3 as stated: the HTML converted is the transfer-decoded body of the first
\* part that declares Content-Type: text/html, and there is none when no part
\* declares it or that first part yields nothing.
C3_FirstDeclaredHtmlPart ==
  Converting =>
    LastFound.html = IF HtmlParts(LastParts) = {} THEN None
                     ELSE _extract_html_from_part(LastParts[Min(HtmlParts(LastParts))])

\* C3: the HTML converted is the transfer-decoded body of the first part, in
\* split order, that declares Content-Type: text/html and has a blank line
\* after its headers; no later text/html part is used, and there is no HTML
\* when there is no such part.
C3_FirstExtractableHtmlPart ==
  Converting =>
    LastFound.html =
      IF ExtractableHtmlParts(LastParts) = {} THEN None
      ELSE _extract_html_from_part(LastParts[Min(ExtractableHtmlParts(LastParts))])

\* a document with two text/html parts that both yield text was converted
C3_Witness ==
  /\ Converting
  /\ Cardinality(ExtractableHtmlParts(LastParts)) = 2
  /\ response.success
  /\ response.navigation = << << "APE" >>, << "Billing" >> >>

\* the navigation lists answered and stored so far
Navigations ==
  { log[i].response.navigation : i \in DOMAIN log }
  \cup { metadata[f].navigation : f \in DOMAIN metadata }

\* C4 as stated: the navigation answered and stored after a successful
\* upload is a non-empty sequence with no empty segment.
C4_NoEmptySegment ==
  \A nav \in Navigations : nav # << >> /\ \A k \in DOMAIN nav : Strip(nav[k]) # << >>

\* the number of ">" in a breadcrumb
Separators(nav_breadcrumb) == Cardinality({ i \in DOMAIN nav_breadcrumb : nav_breadcrumb[i] = ">" })

\* C4: for every breadcrumb that passes the gate, the navigation answered and
\* stored is a non-empty sequence of one segment more than the breadcrumb
\* has ">" separators, each without leading or trailing whitespace (a
\* segment is empty where nothing but whitespace lies next to a separator).
C4_TrimmedSegments ==
  /\ \A i \in DOMAIN log :
       LET nav == log[i].response.navigation
           crumb == log[i].response.full_navigation
       IN  /\ crumb # << >>
           /\ nav # << >>
           /\ Len(nav) = Separators(crumb) + 1
           /\ \A k \in DOMAIN nav : nav[k] = Strip(nav[k]) /\ ">" \notin Range(nav[k])
  /\ \A f \in DOMAIN metadata :
       /\ metadata[f].navigation # << >>
       /\ Len(metadata[f].navigation) = Separators(metadata[f].full_navigation) + 1
       /\ \A k \in DOMAIN metadata[f].navigation :
            metadata[f].navigation[k] = Strip(metadata[f].navigation[k])

\* the breadcrumb "APE >" was accepted: its second segment is empty
C4_Witness ==
  /\ response.success
  /\ response.full_navigation = << "APE", " ", ">" >>
  /\ response.navigation = << << "APE" >>, << >> >>
  /\ metadata[response.html_filename].navigation = << << "APE" >>, << >> >>

\* the HTML file names derived so far
Derived == { log[i].response.html_filename : i \in DOMAIN log }

\* the most recent successful upload that derived the file name f
Latest(f) ==
  log[CHOOSE i \in DOMAIN log :
        /\ log[i].response.html_filename = f
        /\ \A j \in DOMAIN log : log[j].response.html_filename = f => j <= i]

\* C5: the metadata hold one entry per file name derived by a successful
\* upload, and the entry and the HTML file of a name are those of the most
\* recent successful upload that derived it; uploads with the same segments
\* in the same order derive the same file name.
C5_LatestWins ==
  /\ DOMAIN metadata = Derived
  /\ DOMAIN htmlFiles = Derived
  /\ \A f \in Derived :
       /\ metadata[f].filename = f
       /\ metadata[f].navigation = Latest(f).response.navigation
       /\ metadata[f].full_navigation = Latest(f).response.full_navigation
       /\ htmlFiles[f] = Latest(f).html
  /\ \A i, j \in DOMAIN log :
       log[i].response.navigation = log[j].response.navigation
       => log[i].response.html_filename = log[j].response.html_filename

\* two successful uploads derived the same file name from different
\* breadcrumbs and bodies; the second one's are kept
C5_Witness ==
  /\ Len(log) = 2
  /\ log[1].response.html_filename = log[2].response.html_filename
  /\ log[1].response.navigation = log[2].response.navigation
  /\ log[1].response.full_navigation # log[2].response.full_navigation
  /\ log[1].html # log[2].html
  /\ htmlFiles[log[2].response.html_filename] = log[2].html
  /\ metadata[log[2].response.html_filename].full_navigation
       = log[2].response.full_navigation

\* C6: when the parts yield no document, or one without an <html tag, the
\* conversion fails with "Could not extract valid HTML content" and the
\* upload leaves the images directory, the HTML files and the metadata as
\* they were.
C6_NoHtmlWritesNothing ==
  (/\ Converting
   /\ \/ ~LastFound.html.some
      \/ Range(LastFound.html.val) \cap HtmlOpeners = {})
  => /\ ~response.success
     /\ response.status = 500
     /\ response.error = NoHtmlError
     /\ imagesDir = before.imagesDir
     /\ htmlFiles = before.htmlFiles
     /\ metadata = before.metadata

\* a document whose HTML has no <html tag and that carries an image was
\* rejected, and no image is on disk
C6_Witness ==
  /\ served = 1
  /\ Accepted(request)
  /\ LastFound.html.some
  /\ LastFound.html.val # << >>
  /\ LastFound.images # << >>
  /\ response.error = NoHtmlError
  /\ imagesDir = << >>
  /\ htmlFiles = << >>
  /\ metadata = << >>

\* part[content_start:].strip(): the body of a part, still encoded
EncodedBody(part) == Strip(Drop(part, Find(part, BlankLine) + 1))

\* base64.b64decode raises on the body of the part: decode_html_content
\* takes its except branch
DecodeFails(part) ==
  /\ EncodingBase64 \in Range(part)
  /\ ~B64Decode(RemoveSpace(EncodedBody(part))).ok

\* the request handled last reached the conversion, and the decoding of
\* the text/html part its document is taken from failed
LastDecodeFailed ==
  /\ Converting
  /\ ExtractableHtmlParts(LastParts) # {}
  /\ DecodeFails(LastParts[Min(ExtractableHtmlParts(LastParts))])

\* the still-encoded body of that part
LastEncodedBody == EncodedBody(LastParts[Min(ExtractableHtmlParts(LastParts))])

\* C10 as stated: when the decoding of the HTML part fails, the conversion
\* still succeeds: the upload is not answered with "Could not extract valid
\* HTML content".
C10_DecodeFailureNeverFatal ==
  LastDecodeFailed => response.status # 500 /\ response.error # NoHtmlError

\* C10: when the decoding of the HTML part fails, decode_html_content
\* returns the undecoded text and no exception reaches the caller; the
\* conversion then succeeds exactly when that undecoded text itself has an
\* <html tag, and is rejected with "Could not extract valid HTML content"
\* otherwise.
C10_DecodeFailureReturnsText ==
  LastDecodeFailed =>
    /\ LastFound.html = Some(LastEncodedBody)
    /\ (response.status = 500) = (Range(LastEncodedBody) \cap HtmlOpeners = {})
    /\ response.status = 500 => response.error = NoHtmlError
    /\ response.status # 500 => response.status \in { 200, 400 }

\* base64 text cut short was uploaded as the HTML part: the decoding fails
\* and the upload is rejected
C10_Witness ==
  /\ LastDecodeFailed
  /\ LastEncodedBody # << >>
  /\ Range(LastEncodedBody) \subseteq Range(B64Alphabet) \cup { "=" }
  /\ response.status = 500
  /\ response.error = NoHtmlError

(***************************************************************************)
(* Properties of the functions called on their own.                        *)
(***************************************************************************)
\* the number of occurrences of p in s
Occurrences(s, p) == Cardinality({ i \in DOMAIN s : MatchAt(s, p, i) })

\* the asset's key is the path its own file is referred to by
SelfKey(asset) ==
  asset.key = ImagesPath(determine_image_filename(asset.key, asset.data))

\* the HTML after the first n assets have been applied
RewrittenBy(n) ==
  save_images_and_update_html(call.arg.html, Take(call.arg.images, n), << >>).html

Rewritten == call.fn = "save_images_and_update_html" /\ call.done

\* C7 as stated: after all assets have been applied, the HTML returned has no
\* src="<key>" for any key of a supplied asset.
C7_NoRawReference ==
  Rewritten =>
    \A i \in DOMAIN call.arg.images :
      ~Contains(call.res.html, SrcAttr(call.arg.images[i].key))

\* C7: after all assets have been applied in insertion order, the HTML
\* returned has no src="<key>" for any key of a supplied asset other than a
\* key that already is images/<the asset's file name> (that reference is
\* rewritten to itself), and no later asset's rewrite undoes an earlier
\* one: the references to an asset's file never become fewer.
C7_RewritesForeignKeys ==
  Rewritten =>
    /\ \A i \in DOMAIN call.arg.images :
         ~SelfKey(call.arg.images[i])
         => ~Contains(call.res.html, SrcAttr(call.arg.images[i].key))
    /\ \A i \in DOMAIN call.arg.images : \A j \in i..Len(call.arg.images) :
         LET rewritten == SrcAttr(ImagesPath(determine_image_filename(
                                    call.arg.images[i].key, call.arg.images[i].data)))
         IN  Occurrences(RewrittenBy(j), rewritten) >= Occurrences(RewrittenBy(i), rewritten)

\* an HTML that refers twice to foo.fld/image001.png was rewritten with that
\* asset and then with the asset keyed images/image001.png
C7_Witness ==
  /\ Rewritten
  /\ Occurrences(call.arg.html, SrcAttr(FooImage)) = 2
  /\ Len(call.arg.images) = 2
  /\ call.arg.images[1].key = FooImage
  /\ call.arg.images[2].key = << "images", "/", "image001.png" >>
  /\ Occurrences(call.res.html, SrcAttr(<< "images", "/", "image001.png" >>)) = 2
  /\ call.res.count = 2

Decoded == call.fn = "decode_html_content" /\ call.done

\* C8: decode_html_content(base64(x), 'base64') returns x for every text x
\* encoded as UTF-8 before the base64 encoding.
C8_Utf8RoundTrip ==
  (Decoded /\ call.arg.charset = "utf-8") => call.res = call.arg.text

Cleaned == call.fn = "remove_confluence_metadata" /\ call.done

\* the paragraph elements of a text: an opening tag, with or without
\* attributes, through the next closing tag
ParagraphsOf(text) ==
  { SubSeq(text, i, NextIn(text, i, ParagraphClose)) :
      i \in { k \in DOMAIN text : text[k] \in ParagraphOpen
                                  /\ NextIn(text, k, ParagraphClose) # 0 } }

\* "page owner" and "page contact" in the letter cases of the texts in use
AnyCasePhrases ==
  OwnerPhrases \cup ContactPhrases \cup { "PAGE OWNER", "PAGE CONTACT" }

RECURSIVE OtherParagraphs(_)
OtherParagraphs(text) ==
  LET open == NextIn(text, 0, ParagraphOpen)
      close == IF open = 0 THEN 0 ELSE NextIn(text, open, ParagraphClose)
  IN  IF close = 0 THEN << >>
      ELSE (IF Range(SubSeq(text, open, close)) \cap AnyCasePhrases = {}
            THEN SubSeq(text, open, close) ELSE << >>)
           \o OtherParagraphs(Drop(text, close))

\* C11: for an HTML made of a sequence of paragraphs, every paragraph whose
\* own text contains neither "page owner" nor "page contact" (a Navigation:
\* paragraph before a page-owner paragraph included) is still present,
\* unchanged and in order, in the sanitised HTML.
C11_KeepsOtherParagraphs ==
  Cleaned => OtherParagraphs(call.res) = OtherParagraphs(call.arg)

=============================================================================
